---- MODULE Spec2Model ----
(***************************************************************************)
(* A model of the DDSketch orchestration layer (src/src/ddsketch.rs) and   *)
(* of its value-to-key mapping (src/src/config.rs).                        *)
(*                                                                         *)
(* f64 values.  A finite f64 is modelled exactly on the lattice            *)
(*        q/4 + e * 2^-53        (q, e integers, |e| small)                *)
(* as the record [k |-> "fin", q |-> q, e |-> e]; NaN and the infinities   *)
(* are separate records.  On this lattice IEEE-754 binary64 addition and   *)
(* multiplication by a small integer are computed exactly as the hardware  *)
(* computes them, round-to-nearest-even included (Round below): 1.0 has    *)
(* q = 4, and 2^-53 (half an ulp of 1.0) has e = 1.  Signed zeros are not  *)
(* distinguished (-0.0 == 0.0 in every comparison the code makes).         *)
(*                                                                         *)
(* i32 values are TLC integers in [I32Min, I32Max]; every i32 operation    *)
(* of the code that can overflow is modelled with both outcomes a build    *)
(* can produce: a panic (overflow checks on, the debug profile) or         *)
(* two's-complement wrapping (overflow checks off, the release profile).   *)
(*                                                                         *)
(* The bucket store (crate::store::Store) is not among the source files;   *)
(* it is modelled from section 4.2 of the specification.                   *)
(***************************************************************************)
EXTENDS Integers, Sequences, FiniteSets, TLC

VARIABLES
    build,  \* "debug" | "release": whether i32 overflow panics or wraps
    zeros,  \* number of add_n / add_key_n calls made with n = 0
    a,      \* a DDSketch
    b,      \* a second DDSketch
    w,      \* a third DDSketch: the single sketch of the partition scenario
    res,    \* outcome of the last operation
    lbst    \* the lower_bound call of the pure-function specification

vars == <<build, zeros, a, b, w, res, lbst>>

----------------------------------------------------------------------------
(* Bounds of the model *)

\* Total number of counted samples held by the sketches of a behaviour.
MaxTotal == 3
\* Largest repetition count n passed to add_n / add_key_n.
MaxN == 2
\* Number of add_n / add_key_n calls with n = 0 in a behaviour.
MaxZeros == 1
\* Number of nested lower_bound frames the stack holds before it overflows.
StackLimit == 3
\* Largest |key| of the contiguous key range fed to lower_bound.
MaxLbKey == 4

(* Program constants *)
I32Max == 2147483647
I32Min == (-I32Max) - 1

----------------------------------------------------------------------------
(* f64 *)

NaN == [k |-> "nan", q |-> 0, e |-> 0]
PosInf == [k |-> "inf", q |-> 0, e |-> 0]
NegInf == [k |-> "ninf", q |-> 0, e |-> 0]
Fin(q, e) == [k |-> "fin", q |-> q, e |-> e]
Zero == Fin(0, 0)
One == Fin(4, 0)
Half == Fin(2, 0)
\* 2^-53: 1.0 + Eps rounds back to 1.0, 1.0 + 2*Eps does not.
Eps == Fin(0, 1)


RECURSIVE Pow2Floor(_)
\* Largest power of two <= m, for m >= 1.
Pow2Floor(m) == IF m < 2 THEN 1 ELSE 2 * Pow2Floor(m \div 2)

\* x rounded to a multiple of u, ties to the even multiple.
RoundHalfEven(x, u) ==
    LET d == x \div u
        r == x - d * u
    IN  IF 2 * r < u THEN d * u
        ELSE IF 2 * r > u THEN (d + 1) * u
        ELSE IF d % 2 = 0 THEN d * u ELSE (d + 1) * u

\* Spacing of binary64 around m/4 + ee*2^-53 (m >= 1), in units of 2^-53.
\* Magnitudes in [1,2) are 2 units apart, in [2,4) 4 units, below 1 at most 1.
Ulp(m, ee) ==
    LET p == Pow2Floor(m)
        u == IF p <= 2 THEN 1 ELSE p \div 2
    IN  IF ee < 0 /\ m = p /\ u > 1 THEN u \div 2 ELSE u

\* The binary64 nearest to the real number q/4 + e*2^-53.
Round(q, e) ==
    IF q = 0 THEN Fin(0, e)
    ELSE IF q > 0 THEN Fin(q, RoundHalfEven(e, Ulp(q, e)))
    ELSE Fin(q, -RoundHalfEven(-e, Ulp(-q, -e)))

\* x < y on f64: false whenever an operand is NaN.
FLt(x, y) ==
    IF x.k = "nan" \/ y.k = "nan" THEN FALSE
    ELSE IF x.k = "inf" \/ y.k = "ninf" THEN FALSE
    ELSE IF x.k = "ninf" \/ y.k = "inf" THEN TRUE
    ELSE x.q < y.q \/ (x.q = y.q /\ x.e < y.e)

FLe(x, y) == x.k # "nan" /\ y.k # "nan" /\ ~FLt(y, x)

FNeg(x) ==
    IF x.k = "nan" THEN NaN
    ELSE IF x.k = "inf" THEN NegInf
    ELSE IF x.k = "ninf" THEN PosInf
    ELSE Fin(-x.q, -x.e)

\* x + y on f64.
FAdd(x, y) ==
    IF x.k = "nan" \/ y.k = "nan" THEN NaN
    ELSE IF x.k = "fin" /\ y.k = "fin" THEN Round(x.q + y.q, x.e + y.e)
    ELSE IF x.k = "fin" THEN y
    ELSE IF y.k = "fin" THEN x
    ELSE IF x.k = y.k THEN x ELSE NaN

\* x * (n as f64) for a small count n: inf * 0 and NaN * n are NaN.
FMulN(x, n) ==
    IF x.k = "nan" THEN NaN
    ELSE IF x.k = "fin" THEN Round(x.q * n, x.e * n)
    ELSE IF n = 0 THEN NaN ELSE x

\* Whether x + y is computed without rounding.
AddIsExact(x, y) ==
    (x.k = "fin" /\ y.k = "fin") => FAdd(x, y) = Fin(x.q + y.q, x.e + y.e)

\* Whether p, the product computed for x * n (or x itself), was not rounded.
MulIsExact(x, n, p) ==
    (x.k = "fin" /\ p # x) => p = Fin(x.q * n, x.e * n)

----------------------------------------------------------------------------
(* Config *)

RECURSIVE IPow(_, _)
IPow(g, j) == IF j <= 0 THEN 1 ELSE g * IPow(g, j - 1)

RECURSIVE FloorLog(_, _, _)
\* Largest j >= 0 with g^j * den <= num (num >= den >= 1): floor(log_g(num/den)).
FloorLog(g, num, den) ==
    IF g * den > num THEN 0 ELSE 1 + FloorLog(g, num, g * den)

RECURSIVE CeilLogUp(_, _, _)
\* Least j >= 0 with g^j * den >= num: ceil(log_g(num/den)) for num/den >= 1.
CeilLogUp(g, num, den) ==
    IF den >= num THEN 0 ELSE 1 + CeilLogUp(g, num, g * den)

\* Config::new.  alpha is the pair <<num, den>>; the model's alphas are
\* 1/2 and 3/4, for which 2.0*alpha, 1.0-alpha and their quotient are exact
\* in f64, so gamma is exactly 3.0 and 7.0.  gamma_ln is ln_1p(gamma - 1):
\* it is a function of gamma and is represented by it.  min_value is a
\* finite f64 in (0, 1]; log_gamma(min_value) is then in (-inf, 0] and the
\* cast `as i32` truncates it towards zero.
ConfigNew(alpha, max_num_bins, min_value) ==
    LET gamma == 1 + (2 * alpha[1]) \div (alpha[2] - alpha[1])
    IN  [ max_num_bins |-> max_num_bins,
          gamma |-> gamma,
          min_value |-> min_value,
          offset |-> 1 - (-FloorLog(gamma, 4, min_value.q)) ]

\* f64::exp overflows to +inf above ln(f64::MAX) = 709.78 and underflows to
\* 0.0 below ln(2^-1075) = -745.13; in multiples of ln(gamma) these are the
\* exponents below.
PowOverflowAt(gamma) == IF gamma = 3 THEN 647 ELSE 365
PowUnderflowAt(gamma) == IF gamma = 3 THEN -679 ELSE -383

\* Config::pow_gamma: exp(k * gamma_ln).  Every configuration of the model
\* has offset >= 1 (min_value <= 1.0), so the exponents the code passes are
\* >= 0, where the power is the integer gamma^k (up to the rounding of exp,
\* exact for k = 0), or so large in magnitude that exp overflows/underflows.
pow_gamma(c, k) ==
    IF k >= PowOverflowAt(c.gamma) THEN PosInf
    ELSE IF k <= PowUnderflowAt(c.gamma) THEN Zero
    ELSE Fin(4 * IPow(c.gamma, k), 0)

\* self.log_gamma(m).ceil() as i32, for m = +inf (the cast saturates) or a
\* finite m = q/4 > min_value.  ln(1.0) is exactly 0.0; every other finite
\* sample of the model lies strictly between two powers of gamma, where the
\* rounding of ln cannot move the ceiling.
CeilLogGamma(c, m) ==
    IF m.k = "inf" THEN I32Max
    ELSE IF m.q >= 4 THEN CeilLogUp(c.gamma, m.q, 4)
    ELSE -FloorLog(c.gamma, 4, m.q)

\* An i32 result: a value, or the panic of an overflow check.
I32Ok(n) == [ok |-> TRUE, v |-> n]
I32Panic == [ok |-> FALSE, v |-> 0]

\* x + y on i32, x >= 0 and y >= 0.
I32AddPos(bld, x, y) ==
    IF x <= I32Max - y THEN I32Ok(x + y)
    ELSE IF bld = "debug" THEN I32Panic
    ELSE I32Ok(I32Min + (x - (I32Max - y) - 1))

\* x - y on i32, x <= 0 and y >= 0.
I32SubNeg(bld, x, y) ==
    IF x >= I32Min + y THEN I32Ok(x - y)
    ELSE IF bld = "debug" THEN I32Panic
    ELSE I32Ok(I32Max - ((I32Min + y) - x - 1))

\* Config::key
key(c, bld, v) ==
    IF FLt(v, FNeg(c.min_value)) THEN
        I32SubNeg(bld, -CeilLogGamma(c, FNeg(v)), c.offset)
    ELSE IF FLt(c.min_value, v) THEN
        I32AddPos(bld, CeilLogGamma(c, v), c.offset)
    ELSE I32Ok(0)

\* The outcome of a lower_bound call: a value, a panic, or a stack overflow.
LbVal(x) == [st |-> "val", v |-> x]
LbPanic == [st |-> "panic", v |-> NaN]
LbStackOverflow == [st |-> "stack_overflow", v |-> NaN]
LbNeg(r) == IF r.st = "val" THEN LbVal(FNeg(r.v)) ELSE r

RECURSIVE lower_bound_at(_, _, _, _)
\* Config::lower_bound, called at stack depth `depth`.
lower_bound_at(c, bld, k, depth) ==
    IF depth > StackLimit THEN LbStackOverflow
    ELSE IF k < 0 THEN
        IF k = I32Min
        THEN IF bld = "debug" THEN LbPanic
             ELSE LbNeg(lower_bound_at(c, bld, I32Min, depth + 1))
        ELSE LbNeg(lower_bound_at(c, bld, -k, depth + 1))
    ELSE IF k = I32Max THEN LbVal(PosInf)
    ELSE IF k = 0 THEN LbVal(Zero)
    ELSE LbVal(pow_gamma(c, k - c.offset))

lower_bound(c, bld, k) == lower_bound_at(c, bld, k, 1)

----------------------------------------------------------------------------
(* Store: the capacity-bounded bucket store of section 4.2 *)

EmptyBins == [k \in {} |-> 0]

\* Store::new
store_new(max_num_bins) ==
    [ max_num_bins |-> max_num_bins, has |-> FALSE,
      min_key |-> 0, max_key |-> 0, bins |-> EmptyBins, count |-> 0 ]

\* hi - lo >= n for i32 keys lo <= hi and n >= 1, without leaving the
\* integers TLC can represent.
SpanAtLeast(lo, hi, n) == IF hi >= 0 THEN hi - n >= lo ELSE hi - lo >= n

RECURSIVE SumBins(_, _)
SumBins(bins, ks) ==
    IF ks = {} THEN 0
    ELSE LET k == CHOOSE x \in ks : TRUE
         IN  bins[k] + SumBins(bins, ks \ {k})

\* The buckets below the new lower bound `lo` merged into the bucket at `lo`.
Collapse(bins, lo) ==
    LET low == {k \in DOMAIN bins : k < lo}
    IN  IF low = {} THEN bins
        ELSE [k \in (DOMAIN bins \ low) \cup {lo} |->
                 (IF k \in DOMAIN bins THEN bins[k] ELSE 0)
                 + (IF k = lo THEN SumBins(bins, low) ELSE 0)]

\* n more samples in the bucket at key k.
Bump(bins, k, n) ==
    IF n = 0 THEN bins
    ELSE [j \in DOMAIN bins \cup {k} |->
             (IF j \in DOMAIN bins THEN bins[j] ELSE 0) + (IF j = k THEN n ELSE 0)]

\* Store::add(key, n): the key interval is extended to hold the key; when
\* it would become wider than max_num_bins, the lowest keys are collapsed
\* into the lowest bucket that remains.
store_add(s, k, n) ==
    LET cap == s.max_num_bins
        lo == IF ~s.has THEN k
              ELSE IF k > s.max_key THEN
                  (IF SpanAtLeast(s.min_key, k, cap) THEN k - cap + 1 ELSE s.min_key)
              ELSE IF k < s.min_key THEN
                  (IF SpanAtLeast(k, s.max_key, cap) THEN s.max_key - cap + 1 ELSE k)
              ELSE s.min_key
        hi == IF ~s.has \/ k > s.max_key THEN k ELSE s.max_key
        at == IF k < lo THEN lo ELSE k
    IN  [ s EXCEPT !.has = TRUE, !.min_key = lo, !.max_key = hi,
                   !.bins = Bump(Collapse(s.bins, lo), at, n),
                   !.count = s.count + n ]

\* Store::count
store_count(s) == s.count

\* Store::length: the number of keys of the materialized interval.
store_length(s) == IF s.has THEN s.max_key - s.min_key + 1 ELSE 0

\* Store::key_at_rank: the smallest key whose cumulative count reaches rank
\* (the interval's lowest key for rank 0, its highest for a rank above the
\* total count).
store_key_at_rank(s, rank) ==
    LET hit == {k \in DOMAIN s.bins :
                   SumBins(s.bins, {j \in DOMAIN s.bins : j <= k}) >= rank}
    IN  IF rank <= 0 THEN s.min_key
        ELSE IF hit = {} THEN s.max_key
        ELSE CHOOSE k \in hit : \A j \in hit : k <= j

RECURSIVE MergeFrom(_, _, _)
MergeFrom(s, bins, ks) ==
    IF ks = {} THEN s
    ELSE LET k == CHOOSE x \in ks : \A y \in ks : x <= y
         IN  MergeFrom(store_add(s, k, bins[k]), bins, ks \ {k})

\* Store::merge: add(key, count) for every bucket of the other store, in
\* ascending key order.
store_merge(s, o) == MergeFrom(s, o.bins, DOMAIN o.bins)

----------------------------------------------------------------------------
(* DDSketch *)

\* DDSketch::new.  `added` and `inexact` are history fields, not fields of
\* the struct: the exact number of samples passed to the sketch, and whether
\* an f64 operation that went into `sum` was rounded.  max_num_bins is cast
\* from u32 to i32; the model's values are below 2^31, where the cast keeps
\* them.
sketch_new(config) ==
    [ config |-> config, store |-> store_new(config.max_num_bins),
      min |-> PosInf, max |-> NegInf, sum |-> Zero,
      added |-> 0, inexact |-> FALSE ]

\* The min/max/sum bookkeeping shared by add, add_n and add_key_n.
Track(s, k, v, n, term) ==
    [ s EXCEPT !.store = store_add(s.store, k, n),
               !.min = IF FLt(v, s.min) THEN v ELSE s.min,
               !.max = IF FLt(s.max, v) THEN v ELSE s.max,
               !.sum = FAdd(s.sum, term),
               !.added = s.added + n,
               !.inexact = s.inexact \/ ~AddIsExact(s.sum, term)
                           \/ ~MulIsExact(v, n, term) ]

\* The outcome of a call: it returned (s is the sketch after it) or it
\* panicked before changing anything.
Returned(s) == [ok |-> TRUE, s |-> s]
Panicked(s) == [ok |-> FALSE, s |-> s]

\* DDSketch::add
add(s, bld, v) ==
    LET kr == key(s.config, bld, v)
    IN  IF kr.ok THEN Returned(Track(s, kr.v, v, 1, v)) ELSE Panicked(s)

\* DDSketch::add_n
add_n(s, bld, v, n) ==
    LET kr == key(s.config, bld, v)
    IN  IF kr.ok THEN Returned(Track(s, kr.v, v, n, FMulN(v, n))) ELSE Panicked(s)

\* DDSketch::add_key_n
add_key_n(s, bld, k, n) ==
    LET lb == lower_bound(s.config, bld, k)
    IN  IF lb.st = "val" THEN Returned(Track(s, k, lb.v, n, FMulN(lb.v, n)))
        ELSE Panicked(s)

\* DDSketch::count (usize is 64 bits wide on the targets modelled).
count(s) == store_count(s.store)

\* DDSketch::len
len(s) == store_length(s.store)

\* DDSketch::empty / is_empty
empty(s) == count(s) = 0

None == [some |-> FALSE, v |-> NaN]
Some(x) == [some |-> TRUE, v |-> x]

\* min() telling an empty sketch by the +infinity sentinel instead of by
\* its count.
min_by_sentinel(s) == IF s.min = PosInf THEN None ELSE Some(s.min)

\* DDSketch::min
min(s) == IF empty(s) THEN None ELSE Some(s.min)

\* DDSketch::max
max(s) == IF empty(s) THEN None ELSE Some(s.max)

\* DDSketch::sum
sum(s) == IF empty(s) THEN None ELSE Some(s.sum)

\* The rank without its "+ 1.0": a 0-indexed position.
rank_zero_based(q, cnt) ==
    IF q.k = "nan" THEN 0
    ELSE LET x == q.q * (cnt - 1)
         IN  IF x < 0 THEN 0 ELSE x \div 4

\* The rank quantile asks the store for: (q * ((count - 1) as f64) + 1.0)
\* as u64.  q is a multiple of 1/4 or NaN; the product and the sum are then
\* exact, and the cast truncates (NaN and negative values give 0).
rank(q, cnt) ==
    IF q.k = "nan" THEN 0
    ELSE LET x == q.q * (cnt - 1) + 4
         IN  IF x < 0 THEN 0 ELSE x \div 4

\* 2.0 * pow_gamma(j) / (1.0 + gamma): the bucket's representative value.
\* 8 * gamma^j is a multiple of 1 + gamma for gamma = 3 and gamma = 7.
representative(c, j) ==
    LET p == pow_gamma(c, j)
    IN  IF p.k = "fin" THEN Fin((2 * p.q) \div (1 + c.gamma), 0) ELSE p

\* The estimate quantile computes from the key at the rank, before clamping.
\* (offset >= 1, so neither key + offset for key < 0 nor key - offset for
\* key > 0 overflows.)
estimate(s, q) ==
    LET k == store_key_at_rank(s.store, rank(q, count(s)))
    IN  IF k < 0 THEN FNeg(representative(s.config, -(k + s.config.offset)))
        ELSE IF k > 0 THEN representative(s.config, k - s.config.offset)
        ELSE Zero

\* Bound by the extremes
bounded(s, x) ==
    IF FLt(x, s.min) THEN s.min
    ELSE IF FLt(s.max, x) THEN s.max
    ELSE x

\* quantile with `q < 0.0` and `q > 1.0` for its two early returns.
quantile_strict_bounds(s, q) ==
    IF empty(s) THEN None
    ELSE IF FLt(q, Zero) THEN Some(s.min)
    ELSE IF FLt(One, q) THEN Some(s.max)
    ELSE Some(bounded(s, estimate(s, q)))

\* DDSketch::quantile
quantile(s, q) ==
    IF empty(s) THEN None
    ELSE IF FLe(q, Zero) THEN Some(s.min)
    ELSE IF FLe(One, q) THEN Some(s.max)
    ELSE Some(bounded(s, estimate(s, q)))

MergeOk(s) == [ok |-> TRUE, s |-> s]
MergeErr(s) == [ok |-> FALSE, s |-> s]

\* merge comparing the configurations only after it has merged.
merge_checks_config_last(s, o) ==
    LET was_empty == store_count(s.store) = 0
        st == store_merge(s.store, o.store)
        mn == IF was_empty THEN o.min
              ELSE IF store_count(o.store) > 0 /\ FLt(o.min, s.min) THEN o.min
              ELSE s.min
        mx == IF was_empty THEN o.max
              ELSE IF store_count(o.store) > 0 /\ FLt(s.max, o.max) THEN o.max
              ELSE s.max
        t  == [ s EXCEPT !.store = st, !.min = mn, !.max = mx,
                         !.sum = FAdd(s.sum, o.sum),
                         !.added = s.added + o.added,
                         !.inexact = s.inexact \/ o.inexact
                                     \/ ~AddIsExact(s.sum, o.sum) ]
    IN  IF s.config # o.config THEN MergeErr(t) ELSE MergeOk(t)

\* merge that takes the other's min and max only when the receiver is empty.
merge_keeps_own_extremes(s, o) ==
    IF s.config # o.config THEN MergeErr(s)
    ELSE LET was_empty == store_count(s.store) = 0
             st == store_merge(s.store, o.store)
         IN  MergeOk([ s EXCEPT !.store = st,
                                !.min = IF was_empty THEN o.min ELSE s.min,
                                !.max = IF was_empty THEN o.max ELSE s.max,
                                !.sum = FAdd(s.sum, o.sum),
                                !.added = s.added + o.added,
                                !.inexact = s.inexact \/ o.inexact
                                            \/ ~AddIsExact(s.sum, o.sum) ])

\* DDSketch::merge
merge(s, o) ==
    IF s.config # o.config THEN MergeErr(s)
    ELSE
        LET was_empty == store_count(s.store) = 0
            st == store_merge(s.store, o.store)
            mn == IF was_empty THEN o.min
                  ELSE IF store_count(o.store) > 0 /\ FLt(o.min, s.min) THEN o.min
                  ELSE s.min
            mx == IF was_empty THEN o.max
                  ELSE IF store_count(o.store) > 0 /\ FLt(s.max, o.max) THEN o.max
                  ELSE s.max
        IN  MergeOk([ s EXCEPT !.store = st, !.min = mn, !.max = mx,
                               !.sum = FAdd(s.sum, o.sum),
                               !.added = s.added + o.added,
                               !.inexact = s.inexact \/ o.inexact
                                           \/ ~AddIsExact(s.sum, o.sum) ])

----------------------------------------------------------------------------
(* The sketches of a program: any sequence of operations on two sketches *)

Builds == {"debug", "release"}

\* Config::new(0.5, 2, 0.5), Config::new(0.75, 2, 0.5), Config::new(0.5, 1, 0.5)
CfgA == ConfigNew(<<1, 2>>, 2, Half)
CfgB == ConfigNew(<<3, 4>>, 2, Half)
CfgC == ConfigNew(<<1, 2>>, 1, Half)

\* Samples: NaN, +inf, 1.0
Values == {NaN, PosInf, One}
\* Repetition counts: every u64 up to the bound, 0 included
Counts == 0..MaxN
\* Keys passed to add_key_n
Keys == {I32Min, -1}
\* Quantiles asked for: -0.25, 0, 0.25, ..., 1.25, and NaN
Quantiles == {Fin(i, 0) : i \in -1..5} \cup {NaN}

Idle == [cfg |-> CfgA, key |-> 0, pc |-> "idle", out |-> LbVal(Zero)]

Sk(x) == IF x = "a" THEN a ELSE b
Other(x) == IF x = "a" THEN "b" ELSE "a"

\* The call on sketch x ended with outcome r.
Finish(x, r) ==
    /\ a' = IF x = "a" /\ r.ok THEN r.s ELSE a
    /\ b' = IF x = "b" /\ r.ok THEN r.s ELSE b
    /\ res' = IF r.ok THEN "Ok" ELSE "Panic"
    /\ UNCHANGED <<build, w, lbst>>

Room(n) == count(a) + count(b) + n <= MaxTotal

\* The pairs of configurations the two sketches are constructed with.
ConfigPairs == {<<CfgA, CfgA>>, <<CfgA, CfgB>>, <<CfgA, CfgC>>}

Init ==
    /\ build \in Builds
    /\ zeros = 0
    /\ \E cp \in ConfigPairs :
          /\ a = sketch_new(cp[1])
          /\ b = sketch_new(cp[2])
          /\ w = sketch_new(cp[1])
    /\ res = "Ok"
    /\ lbst = Idle

\* A call with n = 0 counts against MaxZeros.
Zeros(n) ==
    /\ n = 0 => zeros < MaxZeros
    /\ zeros' = IF n = 0 THEN zeros + 1 ELSE zeros

Add(x, v) ==
    /\ res # "Panic"
    /\ Room(1)
    /\ Finish(x, add(Sk(x), build, v))
    /\ UNCHANGED zeros

AddN(x, v, n) ==
    /\ res # "Panic"
    /\ Room(n)
    /\ Zeros(n)
    /\ Finish(x, add_n(Sk(x), build, v, n))

AddKeyN(x, k, n) ==
    /\ res # "Panic"
    /\ Room(n)
    /\ Zeros(n)
    /\ Finish(x, add_key_n(Sk(x), build, k, n))

\* x.merge(&y), y the other sketch
Merge(x) ==
    /\ res # "Panic"
    /\ Room(count(Sk(Other(x))))
    /\ LET r == merge(Sk(x), Sk(Other(x)))
       IN  /\ a' = IF x = "a" THEN r.s ELSE a
           /\ b' = IF x = "b" THEN r.s ELSE b
           /\ res' = IF r.ok THEN "Ok" ELSE "MergeErr"
    /\ UNCHANGED <<build, zeros, w, lbst>>

Next ==
    \E x \in {"a", "b"} :
        \/ \E v \in Values : Add(x, v)
        \/ \E v \in Values, n \in Counts : AddN(x, v, n)
        \/ \E k \in Keys, n \in Counts : AddKeyN(x, k, n)
        \/ Merge(x)

Spec == Init /\ [][Next]_vars

----------------------------------------------------------------------------
(* Properties of the two-sketch program *)

Sketches == {"a", "b"}
SkNext(x) == IF x = "a" THEN a' ELSE b'
Unwrap(o) == o.v

\* C1: a.merge(b) on sketches whose configurations differ returns the Merge
\* error and changes nothing: the receiver's buckets, count, min, max and
\* sum are what they were before the call, and so is the operand.
C1_MergeErrNoEffect ==
    [][\A x \in Sketches :
          (Merge(x) /\ Sk(x).config # Sk(Other(x)).config)
              => (res' = "MergeErr" /\ a' = a /\ b' = b)]_vars

\* A failed merge between two non-empty sketches of different configurations.
C1_Witness ==
    /\ res = "MergeErr"
    /\ a.config # b.config
    /\ count(a) > 0
    /\ count(b) > 0

\* C3: on a non-empty sketch quantile(q) is min() for every q <= 0 and
\* max() for every q >= 1, and no q, NaN included, gives an empty result.
C3_BoundaryClamp ==
    \A x \in Sketches : \A q \in Quantiles :
        ~empty(Sk(x)) =>
            /\ quantile(Sk(x), q).some
            /\ FLe(q, Zero) => quantile(Sk(x), q) = min(Sk(x))
            /\ FLe(One, q) => quantile(Sk(x), q) = max(Sk(x))

\* A sketch with distinct extremes, asked for q = -0.25 and q = 1.25.
C3_Witness ==
    /\ count(a) >= 2
    /\ a.min.k = "fin"
    /\ FLt(a.min, a.max)
    /\ quantile(a, Fin(-1, 0)) = Some(a.min)
    /\ quantile(a, Fin(5, 0)) = Some(a.max)

\* C4: a sketch no sample was added to has count() = 0 and gives None for
\* quantile(q) (every q), min(), max() and sum(); and whenever count() > 0
\* each of them gives a value.
C4_EmptyLaws ==
    \A x \in Sketches :
        LET s == Sk(x)
        IN  /\ s.added = 0 =>
                /\ count(s) = 0
                /\ min(s) = None /\ max(s) = None /\ sum(s) = None
                /\ \A q \in Quantiles : quantile(s, q) = None
            /\ count(s) > 0 =>
                /\ min(s).some /\ max(s).some /\ sum(s).some
                /\ \A q \in Quantiles : quantile(s, q).some

\* One sketch holds samples, the other was given only calls that add none.
C4_Witness ==
    /\ count(a) > 0
    /\ b.added = 0
    /\ zeros > 0
    /\ b # sketch_new(b.config)

\* C5 as claimed: in every non-empty sketch quantile(q) lies in
\* [min(), max()], for every q.
C5_QuantileWithinExtremes ==
    \A x \in Sketches : \A q \in Quantiles :
        ~empty(Sk(x)) =>
            /\ FLe(Unwrap(min(Sk(x))), Unwrap(quantile(Sk(x), q)))
            /\ FLe(Unwrap(quantile(Sk(x), q)), Unwrap(max(Sk(x))))

\* C6 as claimed: no operation raises an error, len() never exceeds
\* max_num_bins, the bucket counts add up to the store's total count, and
\* count() is the exact number of samples added.
C6_CapacityAndExactCount ==
    /\ res # "Panic"
    /\ \A x \in Sketches :
          /\ len(Sk(x)) <= Sk(x).config.max_num_bins
          /\ SumBins(Sk(x).store.bins, DOMAIN Sk(x).store.bins) = Sk(x).store.count
          /\ count(Sk(x)) = Sk(x).added

\* C7 as claimed: a successful merge leaves the operand alone; an empty
\* operand leaves the receiver's min, max, sum and count as they were; an
\* empty receiver takes the operand's; two non-empty sketches combine to the
\* smaller min, the larger max and the added sums.
C7_MergeCombines ==
    [][\A x \in Sketches :
          (Merge(x) /\ Sk(x).config = Sk(Other(x)).config) =>
              LET s == Sk(x)
                  o == Sk(Other(x))
                  t == SkNext(x)
              IN  /\ SkNext(Other(x)) = o
                  /\ (empty(o) /\ ~empty(s)) =>
                        /\ t.min = s.min /\ t.max = s.max
                        /\ t.sum = s.sum /\ count(t) = count(s)
                  /\ (~empty(o) /\ empty(s)) =>
                        /\ t.min = o.min /\ t.max = o.max
                        /\ t.sum = o.sum /\ count(t) = count(o)
                  /\ (~empty(o) /\ ~empty(s)) =>
                        /\ t.min = (IF FLt(o.min, s.min) THEN o.min ELSE s.min)
                        /\ t.max = (IF FLt(s.max, o.max) THEN o.max ELSE s.max)
                        /\ t.sum = FAdd(s.sum, o.sum)]_vars

\* C8 as claimed: whenever a sketch holds no samples its tracked min is
\* +infinity, its tracked max is -infinity and its tracked sum is 0.0.
C8_EmptyHasSentinels ==
    \A x \in Sketches :
        count(Sk(x)) = 0 =>
            /\ Sk(x).min = PosInf
            /\ Sk(x).max = NegInf
            /\ Sk(x).sum = Zero

\* q strictly between 0 and 1
Inner(q) == FLt(Zero, q) /\ FLt(q, One)

\* C10: for a non-empty sketch and 0 < q < 1 the rank passed to
\* key_at_rank is at least 1 and at most count(), and is 1 when count() = 1.
C10_RankInRange ==
    \A x \in Sketches : \A q \in Quantiles :
        (~empty(Sk(x)) /\ Inner(q)) =>
            /\ 1 <= rank(q, count(Sk(x)))
            /\ rank(q, count(Sk(x))) <= count(Sk(x))
            /\ count(Sk(x)) = 1 => rank(q, count(Sk(x))) = 1

\* Three samples, and q = 0.75 asks for the second of them.
C10_Witness ==
    /\ count(a) = 3
    /\ rank(Fin(3, 0), count(a)) = 2
    /\ store_key_at_rank(a.store, 2) \in DOMAIN a.store.bins

----------------------------------------------------------------------------
(* The partition scenario: a multiset of samples is split between the      *)
(* sketches a and b while w receives every sample; then one of a and b is  *)
(* merged into the other.                                                  *)

\* Samples: 2^-53, 1.0, -2.0 and NaN; each is added at least once.
PartValues == {Eps, One, Fin(-8, 0), NaN}
PartCounts == 1..MaxN
PartConfigs == {CfgA, CfgC}

PartInit ==
    /\ build = "release"
    /\ zeros = 0
    /\ \E c \in PartConfigs :
          /\ a = sketch_new(c)
          /\ b = sketch_new(c)
          /\ w = sketch_new(c)
    /\ res = "Ok"
    /\ lbst = Idle

\* The sample goes to group x and to the single sketch.
PartFinish(x, r, rw) ==
    /\ a' = IF x = "a" THEN r.s ELSE a
    /\ b' = IF x = "b" THEN r.s ELSE b
    /\ w' = rw.s
    /\ UNCHANGED <<build, zeros, res, lbst>>

PartAdd(x, v) ==
    /\ res = "Ok"
    /\ count(w) + 1 <= MaxTotal
    /\ PartFinish(x, add(Sk(x), build, v), add(w, build, v))

PartAddN(x, v, n) ==
    /\ res = "Ok"
    /\ count(w) + n <= MaxTotal
    /\ PartFinish(x, add_n(Sk(x), build, v, n), add_n(w, build, v, n))

\* x.merge(&y), y the other group; nothing is added afterwards.
PartMerge(x) ==
    /\ res = "Ok"
    /\ LET r == merge(Sk(x), Sk(Other(x)))
       IN  /\ a' = IF x = "a" THEN r.s ELSE a
           /\ b' = IF x = "b" THEN r.s ELSE b
           /\ res' = IF r.ok THEN "Merged_" \o x ELSE "MergeErr"
    /\ UNCHANGED <<build, zeros, w, lbst>>

PartNext ==
    \E x \in Sketches :
        \/ \E v \in PartValues : PartAdd(x, v)
        \/ \E v \in PartValues, n \in PartCounts : PartAddN(x, v, n)
        \/ PartMerge(x)

SpecPartition == PartInit /\ [][PartNext]_vars

\* The sketch that received the merge, once it has happened.
Merged == IF res = "Merged_a" THEN a ELSE b
HasMerged == res \in {"Merged_a", "Merged_b"}

\* C2 as claimed: the merged sketch has the count(), sum(), min() and max()
\* of the single sketch built from the whole multiset, and the same bucket
\* totals per key.
C2_MergeEqualsWhole ==
    HasMerged =>
        /\ count(Merged) = count(w)
        /\ sum(Merged) = sum(w)
        /\ min(Merged) = min(w)
        /\ max(Merged) = max(w)
        /\ Merged.store.bins = w.store.bins

\* C2 amended: count(), min(), max() and the bucket totals per key agree;
\* sum() agrees when no f64 operation that went into either sum was rounded.
C2_MergeEqualsWholeUpToRounding ==
    HasMerged =>
        /\ count(Merged) = count(w)
        /\ min(Merged) = min(w)
        /\ max(Merged) = max(w)
        /\ Merged.store.bins = w.store.bins
        /\ (~Merged.inexact /\ ~w.inexact) => sum(Merged) = sum(w)

\* Both groups non-empty, more keys than max_num_bins fed in (buckets were
\* collapsed), distinct extremes, and sums that were computed exactly.
C2_Witness ==
    /\ HasMerged
    /\ a.added > 0 /\ b.added > 0
    /\ count(w) = MaxTotal
    /\ FLt(w.min, w.max)
    /\ ~Merged.inexact /\ ~w.inexact
    /\ sum(Merged) = sum(w)
    /\ w.store.min_key > -2

----------------------------------------------------------------------------
(* lower_bound as a function of its key, and add_key_n on a new sketch *)

LbConfigs == {CfgA, CfgB, CfgC}
LbKeys == (-MaxLbKey..MaxLbKey) \cup {I32Min, I32Min + 1, I32Max - 1, I32Max}

LbInit ==
    /\ build \in Builds
    /\ zeros = 0
    /\ \E c \in LbConfigs, k \in LbKeys :
          /\ lbst = [cfg |-> c, key |-> k, pc |-> "call", out |-> LbVal(Zero)]
          /\ a = sketch_new(c)
          /\ b = sketch_new(c)
          /\ w = sketch_new(c)
    /\ res = "Ok"

\* self.config.lower_bound(k)
LbCall ==
    /\ lbst.pc = "call"
    /\ lbst' = [lbst EXCEPT !.pc = "returned",
                            !.out = lower_bound(lbst.cfg, build, lbst.key)]
    /\ UNCHANGED <<build, zeros, a, b, w, res>>

\* a.add_key_n(k, n)
LbAddKeyN(n) ==
    /\ lbst.pc = "returned"
    /\ LET r == add_key_n(a, build, lbst.key, n)
       IN  /\ a' = r.s
           /\ res' = IF r.ok THEN "Ok" ELSE "Panic"
    /\ lbst' = [lbst EXCEPT !.pc = "added"]
    /\ UNCHANGED <<build, zeros, b, w>>

LbNext == LbCall \/ \E n \in Counts : LbAddKeyN(n)

SpecLowerBound == LbInit /\ [][LbNext]_vars

\* C9 as claimed: lower_bound(k) returns a value for every i32 key k, 0.0
\* for k = 0 and -lower_bound(-k) for k < 0 with -k an i32; and add_key_n
\* completes.
C9_LowerBoundTotal ==
    /\ lbst.pc \in {"returned", "added"} =>
          /\ lbst.out.st = "val"
          /\ lbst.key = 0 => lbst.out.v = Zero
          /\ lbst.key < 0 =>
                /\ lbst.key # I32Min
                /\ lbst.out = LbNeg(lower_bound(lbst.cfg, build, -lbst.key))
    /\ lbst.pc = "added" => res = "Ok"

====
